---- MODULE Spec2Model ----
(***************************************************************************)
(* Model of the surname classifier notebook                                *)
(* "Part2_LLMs/02 - Classifier with LSTM - resolvido.ipynb":               *)
(* the NameDataset corpus loader, its character encoder/decoder, the       *)
(* collate_fn batch builder and the shape contract of the classifier.      *)
(*                                                                         *)
(* A character is a one-element string; a text is a sequence of            *)
(* characters.  Characters outside ASCII are written by code point         *)
(* ("U+00E9").  A tensor is a record [shape, data]: shape is the sequence   *)
(* of extents and data the elements in row-major order.  A Python dict is  *)
(* a function; a call that can raise returns a record [exc, val].          *)
(***************************************************************************)
EXTENDS Integers, Sequences, FiniteSets, TLC

VARIABLES fs, globbed, dataset, ret, callers

vars == <<fs, globbed, dataset, ret, callers>>

----------------------------------------------------------------------------
(* Bounds of the model                                                     *)

MaxFiles == 2

MaxBatch == 2

MaxNameLen == 2

----------------------------------------------------------------------------
(* Generic helpers                                                         *)

Range(s) == {s[i] : i \in DOMAIN s}

Min(a, b) == IF a <= b THEN a ELSE b

RECURSIVE Prod(_)
Prod(shape) == IF shape = <<>> THEN 1 ELSE Head(shape) * Prod(Tail(shape))

RECURSIVE Concat(_)
Concat(ss) == IF ss = <<>> THEN <<>> ELSE Head(ss) \o Concat(Tail(ss))

RECURSIVE Perms(_)
Perms(S) ==
  IF S = {} THEN {<<>>}
  ELSE UNION {{<<x>> \o p : p \in Perms(S \ {x})} : x \in S}

Ok(v) == [exc |-> "none", val |-> v]

Raise(e) == [exc |-> e, val |-> <<>>]

EmptyDict == [k \in {} |-> k]

DictSet(d, k, v) == (k :> v) @@ d

----------------------------------------------------------------------------
(* The alphabet, NameDataset.__init__                                      *)

ascii_lowercase ==
  <<"a","b","c","d","e","f","g","h","i","j","k","l","m",
    "n","o","p","q","r","s","t","u","v","w","x","y","z">>

ascii_uppercase ==
  <<"A","B","C","D","E","F","G","H","I","J","K","L","M",
    "N","O","P","Q","R","S","T","U","V","W","X","Y","Z">>

ascii_letters == ascii_lowercase \o ascii_uppercase

all_letters == <<"-">> \o ascii_letters \o <<" ", ".", ",", ";", "'">>

n_letters == Len(all_letters)

NULL_IDX == 0

\* {letter: idx for idx, letter in enumerate(all_letters)}: a later
\* occurrence of a letter overwrites an earlier one.
letter2idx ==
  [c \in Range(all_letters) |->
     CHOOSE i \in 0..(n_letters - 1) :
       /\ all_letters[i + 1] = c
       /\ \A j \in 0..(n_letters - 1) : all_letters[j + 1] = c => j <= i]

----------------------------------------------------------------------------
(* Tensors                                                                 *)

\* tensor.squeeze(): every axis of extent 1 is removed
squeeze(t) ==
  [shape |-> SelectSeq(t.shape, LAMBDA d : d # 1), data |-> t.data]

\* tensor.unsqueeze(0)
unsqueeze0(t) == [shape |-> <<1>> \o t.shape, data |-> t.data]

\* tensor[i] on a tensor of at least one axis, 0 <= i < shape[0]
TIndex(t, i) ==
  LET sz == Prod(Tail(t.shape))
  IN  [shape |-> Tail(t.shape), data |-> SubSeq(t.data, i * sz + 1, (i + 1) * sz)]

\* tensor[:k] on a tensor of at least one axis
TSlice(t, k) ==
  LET sz == Prod(Tail(t.shape))
      m  == Min(k, t.shape[1])
  IN  [shape |-> <<m>> \o Tail(t.shape), data |-> SubSeq(t.data, 1, m * sz)]

\* index of the first maximal element of a non-empty sequence, 0-based
FirstMax(v) ==
  CHOOSE i \in 0..(Len(v) - 1) :
    /\ \A j \in 0..(Len(v) - 1) : v[j + 1] <= v[i + 1]
    /\ \A j \in 0..(i - 1) : v[j + 1] < v[i + 1]

\* torch.argmax(tensor, dim=-1)
argmax(t) ==
  IF t.shape = <<>> THEN [shape |-> <<>>, data |-> <<0>>]
  ELSE LET n     == t.shape[Len(t.shape)]
           front == SubSeq(t.shape, 1, Len(t.shape) - 1)
       IN  [shape |-> front,
            data  |-> [r \in 1..Prod(front) |->
                         FirstMax(SubSeq(t.data, (r - 1) * n + 1, r * n))]]

\* torch.cat of one-axis tensors
cat(ts) ==
  [shape |-> <<Len(Concat([i \in DOMAIN ts |-> ts[i].data]))>>,
   data  |-> Concat([i \in DOMAIN ts |-> ts[i].data])]

\* pad_sequence(sequences, batch_first=True, padding_value): the sequences
\* are stacked along a new first axis; each is extended at its end with
\* elements equal to padding_value up to the longest first extent.
pad_sequence(sequences, padding_value) ==
  LET B        == Len(sequences)
      trailing == Tail(sequences[1].shape)
      rowsize  == Prod(trailing)
      lens     == {sequences[b].shape[1] : b \in 1..B}
      maxlen   == CHOOSE m \in lens : \A l \in lens : l <= m
  IN  [shape |-> <<B, maxlen>> \o trailing,
       data  |-> [k \in 1..(B * maxlen * rowsize) |->
                    LET b == ((k - 1) \div (maxlen * rowsize)) + 1
                        r == (k - 1) % (maxlen * rowsize)
                        l == r \div rowsize
                        j == r % rowsize
                    IN  IF l < sequences[b].shape[1]
                        THEN sequences[b].data[l * rowsize + j + 1]
                        ELSE padding_value]]

----------------------------------------------------------------------------
(* Sample texts, files and call arguments                                  *)

NL == "\n"

Smith == <<"S","m","i","t","h">>

Jones == <<"J","o","n","e","s">>

Rossi == <<"R","o","s","s","i">>

Abl == <<"A","b","l">>

Zz == <<"Z","z">>

\* "Jos" followed by U+00E9 (e with acute accent, precomposed)
JoseAccent == <<"J","o","s","U+00E9">>

Jose == <<"J","o","s","e">>

\* What open(filename, encoding='utf-8').read() can return
Contents ==
  { <<>>,
    Smith \o <<NL>> \o Jones \o <<NL>>,
    Rossi \o <<NL>>,
    Abl \o <<NL, NL>> \o Zz,
    JoseAccent \o <<" ", NL, "U+00DF", NL>> }

\* A path is <<directory, stem, extension>>
Paths ==
  { <<"names", "English", ".txt">>,
    <<"names", "Italian", ".txt">>,
    <<"extra", "English", ".txt">> }

\* Directory part of the patterns <dir>/*.txt given to NameDataset; "*"
\* matches every directory, "nomes" is a directory that does not exist.
Patterns == {"names", "extra", "*", "nomes"}

\* the scenario of two category files: English.txt (Smith, Jones) and
\* Italian.txt (Rossi)
ScenarioFS ==
  (<<"names", "English", ".txt">> :> (Smith \o <<NL>> \o Jones \o <<NL>>)) @@
  (<<"names", "Italian", ".txt">> :> (Rossi \o <<NL>>))

\* files with an empty line, a trailing blank, an accent, a character
\* outside the alphabet, and a second directory repeating a base name
MixedFS ==
  (<<"names", "English", ".txt">> :> (Abl \o <<NL, NL>> \o Zz)) @@
  (<<"names", "Italian", ".txt">> :> (JoseAccent \o <<" ", NL, "U+00DF", NL>>)) @@
  (<<"extra", "English", ".txt">> :> (Rossi \o <<NL>>))

SampleFileSystems == {ScenarioFS, MixedFS}

\* every file system of at most MaxFiles files
FileSystems ==
  UNION {[S -> Contents] : S \in {T \in SUBSET Paths : Cardinality(T) <= MaxFiles}}

SampleChars == {"-", "A", "1", "U+00DF"}

RECURSIVE SeqsUpTo(_, _)
SeqsUpTo(S, n) ==
  IF n = 0 THEN {<<>>}
  ELSE LET shorter == SeqsUpTo(S, n - 1)
       IN  shorter \cup {<<x>> \o s : x \in S, s \in {t \in shorter : Len(t) = n - 1}}

\* short names over the sample characters, every one-character name of the
\* alphabet, and the names of the examples
SampleNames ==
  SeqsUpTo(SampleChars, MaxNameLen) \cup {<<c>> : c \in Range(all_letters)}
    \cup {Abl, Zz, Rossi}

SampleLetters == SampleChars \cup Range(all_letters)

\* score tensors of another vocabulary given to tensor_to_name: two more
\* columns than the alphabet has, the maximum of each row at one of
\* HotColumns
ScoreWidth == n_letters + 2

HotColumns == {0, n_letters - 1, n_letters, n_letters + 1}

ScoreTensors ==
  { [shape |-> <<Len(hot), ScoreWidth>>,
     data  |-> [k \in 1..(Len(hot) * ScoreWidth) |->
                  IF (k - 1) % ScoreWidth = hot[((k - 1) \div ScoreWidth) + 1]
                  THEN 1 ELSE 0]] :
    hot \in SeqsUpTo(HotColumns, MaxNameLen) \ {<<>>} }

\* texts given to unicode_to_ascii: plain, accented (precomposed and
\* decomposed), outside the alphabet, with spacing and enclosing marks
SampleLines ==
  { <<>>, Smith, JoseAccent, <<"J","o","s","e","U+0301">>,
    <<"n","i","U+00F1","o">>, <<"U+00DF">>, <<"1","U+00E9","U+00DF">>,
    <<"U+0B95","U+0BCA">>, <<"U+0915","U+0903">>, <<"A","U+20DD">> }

\* sequences of distinct positions 0..n-1 of length 1..MaxBatch, as a
\* DataLoader sampler hands them to collate_fn
BatchIndices(n) ==
  {s \in SeqsUpTo(0..(n - 1), MaxBatch) :
     /\ Len(s) >= 1
     /\ \A i, j \in DOMAIN s : i # j => s[i] # s[j]}

----------------------------------------------------------------------------
(* Library functions used by the loader                                    *)

\* glob.glob(<dir>/*.txt): the paths of the file system the pattern matches
glob(files, pattern) ==
  {p \in DOMAIN files : (pattern = "*" \/ p[1] = pattern) /\ p[3] = ".txt"}

\* os.path.basename
basename(p) == <<p[2], p[3]>>

\* os.path.splitext
splitext(b) == <<b[1], b[2]>>

\* characters str.strip() removes
Whitespace == {" ", NL, "\t", "\r"}

RECURSIVE lstrip(_)
lstrip(s) ==
  IF s # <<>> /\ Head(s) \in Whitespace THEN lstrip(Tail(s)) ELSE s

RECURSIVE rstrip(_)
rstrip(s) ==
  IF s # <<>> /\ s[Len(s)] \in Whitespace
  THEN rstrip(SubSeq(s, 1, Len(s) - 1)) ELSE s

\* str.strip()
strip(s) == rstrip(lstrip(s))

\* str.split(sep): the pieces between the separators, empty pieces kept;
\* a text without separator (the empty text too) is its only piece
RECURSIVE split(_, _)
split(s, sep) ==
  IF \A i \in DOMAIN s : s[i] # sep THEN <<s>>
  ELSE LET i == CHOOSE k \in DOMAIN s :
                  s[k] = sep /\ \A j \in 1..(k - 1) : s[j] # sep
       IN  <<SubSeq(s, 1, i - 1)>> \o split(SubSeq(s, i + 1, Len(s)), sep)

\* unicodedata.normalize('NFD', c) for one character: canonical
\* decomposition (of the characters the samples use)
NFD(c) ==
  IF c = "U+00E9" THEN <<"e", "U+0301">>
  ELSE IF c = "U+00F1" THEN <<"n", "U+0303">>
  ELSE IF c = "U+0BCA" THEN <<"U+0BC6", "U+0BBE">>
  ELSE <<c>>

\* unicodedata.category(c): Mn nonspacing marks (combining acute, tilde),
\* Mc spacing marks (Tamil vowel signs, Devanagari visarga), Me enclosing
\* marks (combining enclosing circle)
category_of(c) ==
  IF c \in {"U+0301", "U+0303"} THEN "Mn"
  ELSE IF c \in {"U+0BC6", "U+0BBE", "U+0BCA", "U+0903"} THEN "Mc"
  ELSE IF c = "U+20DD" THEN "Me"
  ELSE "other"

----------------------------------------------------------------------------
(* NameDataset                                                             *)

\* unicode_to_ascii keeping only the characters of the alphabet as well
\* (... and c in all_letters)
unicode_to_ascii_alphabet(s) ==
  SelectSeq(Concat([i \in DOMAIN s |-> NFD(s[i])]),
            LAMBDA c : category_of(c) # "Mn" /\ c \in Range(all_letters))

unicode_to_ascii(s) ==
  SelectSeq(Concat([i \in DOMAIN s |-> NFD(s[i])]),
            LAMBDA c : category_of(c) # "Mn")

\* the lines data.append loop of load_data for one file
RECURSIVE append_lines(_, _, _)
append_lines(data, lines, category) ==
  IF lines = <<>> THEN data
  ELSE append_lines(Append(data, <<unicode_to_ascii(Head(lines)), category>>),
                    Tail(lines), category)

\* load_body numbering the files from 1 (enumerate(..., 1))
load_body_from1(loc, idx, filename, content) ==
  LET category == splitext(basename(filename))[1]
  IN  [cat2idx |-> DictSet(loc.cat2idx, category, idx + 1),
       idx2cat |-> DictSet(loc.idx2cat, idx + 1, category),
       data    |-> append_lines(loc.data, split(strip(content), NL), category)]

\* one iteration of the for loop of load_data: file number idx (from 0)
load_body(loc, idx, filename, content) ==
  LET category == splitext(basename(filename))[1]
  IN  [cat2idx |-> DictSet(loc.cat2idx, category, idx),
       idx2cat |-> DictSet(loc.idx2cat, idx, category),
       data    |-> append_lines(loc.data, split(strip(content), NL), category)]

\* the local variables of load_data after the first k iterations over the
\* enumerated filenames
RECURSIVE load_loop(_, _, _)
load_loop(filenames, files, k) ==
  IF k = 0 THEN [cat2idx |-> EmptyDict, idx2cat |-> EmptyDict, data |-> <<>>]
  ELSE load_body(load_loop(filenames, files, k - 1), k - 1,
                 filenames[k], files[filenames[k]])

\* load_data going through the files in an order fixed by the file set
\* (enumerate(sorted(glob.glob(path))))
load_data_sorted(filenames, files) ==
  LET ordered == CHOOSE q \in Perms(Range(filenames)) : TRUE
  IN  load_loop(ordered, files, Len(ordered))

load_data(filenames, files) == load_loop(filenames, files, Len(filenames))

\* NameDataset.__init__ on the enumeration glob returned
NameDataset(filenames, files) ==
  LET loaded == load_data(filenames, files)
  IN  [class       |-> "NameDataset",
       all_letters |-> all_letters,
       n_letters   |-> n_letters,
       NULL_IDX    |-> NULL_IDX,
       cat2idx     |-> loaded.cat2idx,
       idx2cat     |-> loaded.idx2cat,
       data        |-> loaded.data,
       letter2idx  |-> letter2idx]

None == [class |-> "NoneType"]

\* letter_index falling back to the last position (letter2idx.get(letter, -1))
letter_index_last(self, letter) ==
  IF letter \in DOMAIN self.letter2idx THEN self.letter2idx[letter]
  ELSE self.n_letters - 1

\* self.letter2idx.get(letter, self.NULL_IDX)
letter_index(self, letter) ==
  IF letter \in DOMAIN self.letter2idx THEN self.letter2idx[letter]
  ELSE self.NULL_IDX

letter_to_tensor(self, letter) ==
  [shape |-> <<1, self.n_letters>>,
   data  |-> [k \in 1..self.n_letters |->
                IF k - 1 = letter_index(self, letter) THEN 1 ELSE 0]]

\* name_to_tensor leaving out the characters that are not in letter2idx
name_to_tensor_known(self, name) ==
  LET known == SelectSeq(name, LAMBDA c : c \in DOMAIN self.letter2idx)
  IN  [shape |-> <<Len(known), 1, self.n_letters>>,
       data  |-> [k \in 1..(Len(known) * self.n_letters) |->
                    LET li == (k - 1) \div self.n_letters
                        j  == (k - 1) % self.n_letters
                    IN  IF j = self.letter2idx[known[li + 1]] THEN 1 ELSE 0]]

name_to_tensor(self, name) ==
  [shape |-> <<Len(name), 1, self.n_letters>>,
   data  |-> [k \in 1..(Len(name) * self.n_letters) |->
                LET li == (k - 1) \div self.n_letters
                    j  == (k - 1) % self.n_letters
                IN  IF j = letter_index(self, name[li + 1]) THEN 1 ELSE 0]]

\* tensor_to_name clamping the index to the alphabet
\* (self.all_letters[min(i, len(self.all_letters) - 1)])
tensor_to_name_clamped(self, tensor) ==
  LET idx == argmax(tensor)
  IN  IF idx.shape = <<>> THEN Raise("TypeError")
      ELSE LET rows == idx.shape[1]
               sz   == Prod(Tail(idx.shape))
           IN  IF rows > 0 /\ sz # 1 THEN Raise("TypeError")
               ELSE Ok([r \in 1..rows |->
                          self.all_letters[Min(idx.data[r], Len(self.all_letters) - 1) + 1]])

\* tensor_to_name reading the alphabet one position further on
\* (self.all_letters[i + 1], wrapping at the end)
tensor_to_name_shifted(self, tensor) ==
  LET idx == argmax(tensor)
  IN  IF idx.shape = <<>> THEN Raise("TypeError")
      ELSE LET rows == idx.shape[1]
               sz   == Prod(Tail(idx.shape))
           IN  IF rows > 0 /\ sz # 1 THEN Raise("TypeError")
               ELSE Ok([r \in 1..rows |->
                          self.all_letters[((idx.data[r] + 1) % Len(self.all_letters)) + 1]])

\* ''.join(self.all_letters[i] for i in idx): iterating idx yields its
\* sub-tensors along the first axis; a tensor indexes a str only when it
\* has exactly one element
tensor_to_name(self, tensor) ==
  LET idx == argmax(tensor)
  IN  IF idx.shape = <<>> THEN Raise("TypeError")
      ELSE LET rows == idx.shape[1]
               sz   == Prod(Tail(idx.shape))
           IN  IF rows > 0 /\ sz # 1 THEN Raise("TypeError")
               ELSE IF \E r \in 1..rows : idx.data[r] >= Len(self.all_letters)
               THEN Raise("IndexError")
               ELSE Ok([r \in 1..rows |-> self.all_letters[idx.data[r] + 1]])

len(self) == Len(self.data)

\* NameDataset.__getitem__, 0 <= idx < len(self)
getitem(self, idx) ==
  LET name     == self.data[idx + 1][1]
      category == self.data[idx + 1][2]
  IN  [name     |-> name_to_tensor(self, name),
       category |-> [shape |-> <<1>>, data |-> <<self.cat2idx[category]>>]]

----------------------------------------------------------------------------
(* collate_fn and the classifier's input contract                          *)

collate_fn(ds, batch) ==
  LET names      == [i \in DOMAIN batch |-> batch[i].name]
      categories == [i \in DOMAIN batch |-> batch[i].category]
  IN  [names      |-> squeeze(pad_sequence(names, ds.NULL_IDX)),
       categories |-> cat(categories)]

\* output_size = len(dataset.cat2idx): the number of classes the
\* classifier is built with
output_size(ds) == Cardinality(DOMAIN ds.cat2idx)

\* criterion = nn.CrossEntropyLoss(ignore_index=0)
ignore_index == 0

\* which elements of the target the loss averages over: those that are not
\* ignore_index
criterion_counted(target) ==
  [k \in DOMAIN target.data |-> target.data[k] # ignore_index]

\* LSTMClassifier.forward, its first statement:
\* batch_size, seq_len, _ = x.size()
forward(x) ==
  IF Len(x.shape) # 3 THEN Raise("ValueError")
  ELSE Ok(<<x.shape[1], x.shape[2]>>)

----------------------------------------------------------------------------
(* The notebook as a state machine                                         *)
(*   fs       the text files on disk, path -> content                     *)
(*   globbed  the enumeration glob.glob returned to the last load_data     *)
(*   dataset  the global NameDataset object (None before its cell ran)     *)
(*   ret      the call of the running cell and what it returned or raised  *)
(*            (op "none" between cells)                                    *)
(*   callers  for each concurrent caller of the dataset's methods, the     *)
(*            frame of its running call (pc "idle" between calls)          *)

Callers == {1, 2}

IdleFrame == [pc |-> "idle"]

Init ==
  /\ fs \in SampleFileSystems
  /\ globbed = <<>>
  /\ dataset = None
  /\ ret = [op |-> "none"]
  /\ callers = [c \in Callers |-> IdleFrame]

\* dataset = NameDataset(data_path); glob yields the matching files in an
\* order of the file system's choosing
Construct(pattern, filenames) ==
  /\ ret.op = "none"
  /\ filenames \in Perms(glob(fs, pattern))
  /\ globbed' = filenames
  /\ dataset' = NameDataset(filenames, fs)
  /\ ret' = [op |-> "NameDataset", path |-> pattern, exc |-> "none"]
  /\ UNCHANGED <<fs, callers>>

\* len(dataset)
CallLen ==
  /\ ret.op = "none"
  /\ dataset.class = "NameDataset"
  /\ ret' = [op |-> "len", exc |-> "none", out |-> len(dataset)]
  /\ UNCHANGED <<fs, globbed, dataset, callers>>

\* dataset[idx] keeping the encoding it computed in the loader
\* (self.cache = (idx, tensor))
CallGetItem_caching(idx) ==
  /\ ret.op = "none"
  /\ dataset.class = "NameDataset"
  /\ idx \in 0..(len(dataset) - 1)
  /\ ret' = [op |-> "getitem", idx |-> idx, exc |-> "none",
             tensor |-> getitem(dataset, idx).name,
             category |-> getitem(dataset, idx).category]
  /\ dataset' = [f \in DOMAIN dataset \cup {"cache"} |->
                   IF f = "cache" THEN <<idx, getitem(dataset, idx).name>>
                   ELSE dataset[f]]
  /\ UNCHANGED <<fs, globbed, callers>>

\* dataset[idx]
CallGetItem(idx) ==
  /\ ret.op = "none"
  /\ dataset.class = "NameDataset"
  /\ idx \in 0..(len(dataset) - 1)
  /\ ret' = [op |-> "getitem", idx |-> idx, exc |-> "none",
             tensor |-> getitem(dataset, idx).name,
             category |-> getitem(dataset, idx).category]
  /\ UNCHANGED <<fs, globbed, dataset, callers>>

\* dataset.letter_to_tensor(letter)
CallLetterToTensor(letter) ==
  /\ ret.op = "none"
  /\ dataset.class = "NameDataset"
  /\ ret' = [op |-> "letter_to_tensor", letter |-> letter, exc |-> "none",
             tensor |-> letter_to_tensor(dataset, letter)]
  /\ UNCHANGED <<fs, globbed, dataset, callers>>

\* dataset.name_to_tensor(name)
CallNameToTensor(name) ==
  /\ ret.op = "none"
  /\ dataset.class = "NameDataset"
  /\ ret' = [op |-> "name_to_tensor", name |-> name, exc |-> "none",
             tensor |-> name_to_tensor(dataset, name)]
  /\ UNCHANGED <<fs, globbed, dataset, callers>>

\* dataset.unicode_to_ascii(s)
CallUnicodeToAscii(s) ==
  /\ ret.op = "none"
  /\ dataset.class = "NameDataset"
  /\ ret' = [op |-> "unicode_to_ascii", s |-> s, exc |-> "none",
             out |-> unicode_to_ascii(s)]
  /\ UNCHANGED <<fs, globbed, dataset, callers>>

\* dataset.tensor_to_name(t) on the tensor the last call returned
CallTensorToName ==
  /\ dataset.class = "NameDataset"
  /\ ret.op \in {"getitem", "letter_to_tensor", "name_to_tensor"}
  /\ LET r == tensor_to_name(dataset, ret.tensor)
     IN  ret' = [op |-> "tensor_to_name", src |-> ret, exc |-> r.exc, out |-> r.val]
  /\ UNCHANGED <<fs, globbed, dataset, callers>>

\* dataset.tensor_to_name(t) on a tensor the dataset did not produce
CallDecodeScores(t) ==
  /\ ret.op = "none"
  /\ dataset.class = "NameDataset"
  /\ LET r == tensor_to_name(dataset, t)
     IN  ret' = [op |-> "tensor_to_name", src |-> [op |-> "scores", tensor |-> t],
                 exc |-> r.exc, out |-> r.val]
  /\ UNCHANGED <<fs, globbed, dataset, callers>>

\* a DataLoader step: collate_fn([dataset[i] for i in indices])
CallCollate(indices) ==
  /\ ret.op = "none"
  /\ dataset.class = "NameDataset"
  /\ indices \in BatchIndices(len(dataset))
  /\ LET batch == [k \in DOMAIN indices |-> getitem(dataset, indices[k])]
         r     == collate_fn(dataset, batch)
     IN  ret' = [op |-> "collate_fn", indices |-> indices, exc |-> "none",
                 names |-> r.names, categories |-> r.categories]
  /\ UNCHANGED <<fs, globbed, dataset, callers>>

\* dataset.tensor_to_name(names[idx]) on the batch collate_fn returned
CallShowRow(idx) ==
  /\ dataset.class = "NameDataset"
  /\ ret.op = "collate_fn"
  /\ idx \in 0..(Len(ret.indices) - 1)
  /\ LET r == IF ret.names.shape = <<>> \/ idx >= ret.names.shape[1]
              THEN Raise("IndexError")
              ELSE tensor_to_name(dataset, TIndex(ret.names, idx))
     IN  ret' = [op |-> "show_row", src |-> ret, idx |-> idx,
                 exc |-> r.exc, out |-> r.val]
  /\ UNCHANGED <<fs, globbed, dataset, callers>>

\* outputs = model(names) in the evaluation loop
CallForward ==
  /\ ret.op = "collate_fn"
  /\ LET r == forward(ret.names)
     IN  ret' = [op |-> "forward", src |-> ret, exc |-> r.exc, out |-> r.val]
  /\ UNCHANGED <<fs, globbed, dataset, callers>>

\* one round of the training loop on the batch collate_fn returned:
\* outputs = model(names); loss = criterion(outputs, categories.squeeze())
TrainStep ==
  /\ ret.op = "collate_fn"
  /\ LET outputs == forward(ret.names)
     IN  ret' = [op |-> "train_step", src |-> ret, exc |-> outputs.exc,
                 counted |-> IF outputs.exc # "none" THEN <<>>
                             ELSE criterion_counted(squeeze(ret.categories))]
  /\ UNCHANGED <<fs, globbed, dataset, callers>>

\* one round of the prediction cell on item i
Predict(i) ==
  /\ ret.op = "none"
  /\ dataset.class = "NameDataset"
  /\ i \in 0..(len(dataset) - 1)
  /\ LET name_tensor == unsqueeze0(squeeze(getitem(dataset, i).name))
         name        == tensor_to_name(dataset, TIndex(name_tensor, 0))
         output      == forward(name_tensor)
     IN  ret' = [op |-> "predict", idx |-> i, name_tensor |-> name_tensor,
                 exc |-> IF name.exc # "none" THEN name.exc ELSE output.exc,
                 out |-> name.val]
  /\ UNCHANGED <<fs, globbed, dataset, callers>>

\* the running cell ends; its result is no longer at hand
EndCell ==
  /\ ret.op # "none"
  /\ ret' = [op |-> "none"]
  /\ UNCHANGED <<fs, globbed, dataset, callers>>

\* the positions range(len(dataset)) the loaders and cells draw from
Positions == IF dataset.class = "NameDataset" THEN 0..(len(dataset) - 1) ELSE {}

Next ==
  \/ \E pattern \in Patterns : \E filenames \in Perms(glob(fs, pattern)) :
       Construct(pattern, filenames)
  \/ CallLen
  \/ \E idx \in Positions : CallGetItem(idx)
  \/ \E letter \in SampleLetters : CallLetterToTensor(letter)
  \/ \E name \in SampleNames : CallNameToTensor(name)
  \/ \E s \in SampleLines : CallUnicodeToAscii(s)
  \/ CallTensorToName
  \/ \E t \in ScoreTensors : CallDecodeScores(t)
  \/ \E indices \in BatchIndices(Cardinality(Positions)) : CallCollate(indices)
  \/ \E idx \in 0..(MaxBatch - 1) : CallShowRow(idx)
  \/ CallForward
  \/ TrainStep
  \/ \E i \in Positions : Predict(i)
  \/ EndCell

Spec == Init /\ [][Next]_vars

\* The loader alone, over every file system of at most MaxFiles files
InitLoader ==
  /\ fs \in FileSystems
  /\ globbed = <<>>
  /\ dataset = None
  /\ ret = [op |-> "none"]
  /\ callers = [c \in Callers |-> IdleFrame]

NextLoader ==
  \/ \E pattern \in Patterns : \E filenames \in Perms(glob(fs, pattern)) :
       Construct(pattern, filenames)
  \/ CallLen
  \/ \E idx \in Positions : CallGetItem(idx)
  \/ EndCell

SpecLoader == InitLoader /\ [][NextLoader]_vars

----------------------------------------------------------------------------
(* Several callers on one dataset: each call runs statement by statement  *)
(* in a frame of its own and reads the dataset object                      *)

\* torch.zeros(n, 1, self.n_letters)
zeros(self, n) ==
  [shape |-> <<n, 1, self.n_letters>>,
   data  |-> [k \in 1..(n * self.n_letters) |-> 0]]

\* tensor[li][0][j] = 1
SetOne(self, tensor, li, j) ==
  [shape |-> tensor.shape,
   data  |-> [k \in DOMAIN tensor.data |->
                IF k = li * self.n_letters + j + 1 THEN 1 ELSE tensor.data[k]]]

\* the names, tensors and batches the concurrent callers pass
ThreadNames == {Abl, Zz}

ThreadBatches == {s \in {<<0, 2>>, <<2, 0>>, <<3>>} : \A k \in DOMAIN s : s[k] \in Positions}

ThreadCalls ==
  IF dataset.class # "NameDataset" THEN {}
  ELSE {[op |-> "name_to_tensor", arg |-> n] : n \in ThreadNames}
         \cup {[op |-> "tensor_to_name", arg |-> name_to_tensor(dataset, n)] : n \in ThreadNames}
         \cup {[op |-> "getitem", arg |-> i] : i \in Positions}
         \cup {[op |-> "collate_fn", arg |-> b] : b \in ThreadBatches}

\* entry of a call: the statements before its loop
BeginCall(c, call) ==
  /\ dataset.class = "NameDataset"
  /\ callers[c].pc = "idle"
  /\ callers' = [callers EXCEPT ![c] =
       CASE call.op = "name_to_tensor" ->
              [pc |-> "encode", op |-> call.op, arg |-> call.arg,
               name |-> call.arg, li |-> 0,
               tensor |-> zeros(dataset, Len(call.arg))]
         [] call.op = "getitem" ->
              [pc |-> "encode", op |-> call.op, arg |-> call.arg,
               name |-> dataset.data[call.arg + 1][1],
               category |-> dataset.data[call.arg + 1][2], li |-> 0,
               tensor |-> zeros(dataset, Len(dataset.data[call.arg + 1][1]))]
         [] call.op = "tensor_to_name" ->
              [pc |-> "decode", op |-> call.op, arg |-> call.arg,
               idx |-> argmax(call.arg), i |-> 0, chars |-> <<>>]
         [] call.op = "collate_fn" ->
              [pc |-> "fetch", op |-> call.op, arg |-> call.arg, batch |-> <<>>]]
  /\ UNCHANGED <<fs, globbed, dataset, ret>>

\* one round of name_to_tensor's loop with the tensor kept in the dataset
\* object (self.scratch) instead of the caller's frame
StepEncode_shared(c) ==
  LET f   == callers[c]
      buf == IF f.li = 0 \/ "scratch" \notin DOMAIN dataset THEN f.tensor
             ELSE dataset["scratch"]
      new == SetOne(dataset, buf, f.li, letter_index(dataset, f.name[f.li + 1]))
  IN  /\ f.pc = "encode"
      /\ f.li < Len(f.name)
      /\ callers' = [callers EXCEPT ![c].tensor = new, ![c].li = f.li + 1]
      /\ dataset' = [k \in DOMAIN dataset \cup {"scratch"} |->
                       IF k = "scratch" THEN new ELSE dataset[k]]
      /\ UNCHANGED <<fs, globbed, ret>>

\* one round of name_to_tensor's loop:
\* tensor[li][0][self.letter2idx.get(letter, self.NULL_IDX)] = 1
StepEncode(c) ==
  LET f == callers[c]
  IN  /\ f.pc = "encode"
      /\ f.li < Len(f.name)
      /\ callers' = [callers EXCEPT
           ![c].tensor = SetOne(dataset, f.tensor, f.li,
                                letter_index(dataset, f.name[f.li + 1])),
           ![c].li = f.li + 1]
      /\ UNCHANGED <<fs, globbed, dataset, ret>>

\* the loop is over: name_to_tensor returns the tensor, __getitem__ builds
\* the category tensor from self.cat2idx and returns the pair
EndEncode(c) ==
  LET f == callers[c]
  IN  /\ f.pc = "encode"
      /\ f.li = Len(f.name)
      /\ callers' = [callers EXCEPT ![c] =
           [pc |-> "done", op |-> f.op, arg |-> f.arg,
            out |-> IF f.op = "name_to_tensor" THEN f.tensor
                    ELSE [name     |-> f.tensor,
                          category |-> [shape |-> <<1>>,
                                        data  |-> <<dataset.cat2idx[f.category]>>]]]]
      /\ UNCHANGED <<fs, globbed, dataset, ret>>

\* one element of the generator of tensor_to_name: self.all_letters[i]
StepDecode(c) ==
  LET f == callers[c]
  IN  /\ f.pc = "decode"
      /\ f.idx.shape # <<>>
      /\ f.i < f.idx.shape[1]
      /\ callers' = [callers EXCEPT ![c] =
           IF Prod(Tail(f.idx.shape)) # 1
           THEN [pc |-> "done", op |-> f.op, arg |-> f.arg, out |-> Raise("TypeError")]
           ELSE IF f.idx.data[f.i + 1] >= Len(dataset.all_letters)
           THEN [pc |-> "done", op |-> f.op, arg |-> f.arg, out |-> Raise("IndexError")]
           ELSE [f EXCEPT !.chars = Append(f.chars, dataset.all_letters[f.idx.data[f.i + 1] + 1]),
                          !.i = f.i + 1]]
      /\ UNCHANGED <<fs, globbed, dataset, ret>>

\* the generator is exhausted (or idx cannot be iterated): ''.join returns
EndDecode(c) ==
  LET f == callers[c]
  IN  /\ f.pc = "decode"
      /\ f.idx.shape = <<>> \/ f.i = f.idx.shape[1]
      /\ callers' = [callers EXCEPT ![c] =
           [pc |-> "done", op |-> f.op, arg |-> f.arg,
            out |-> IF f.idx.shape = <<>> THEN Raise("TypeError") ELSE Ok(f.chars)]]
      /\ UNCHANGED <<fs, globbed, dataset, ret>>

\* the DataLoader fetches the next item of the batch: dataset[i]
StepFetch(c) ==
  LET f == callers[c]
  IN  /\ f.pc = "fetch"
      /\ Len(f.batch) < Len(f.arg)
      /\ callers' = [callers EXCEPT ![c].batch =
                       Append(f.batch, getitem(dataset, f.arg[Len(f.batch) + 1]))]
      /\ UNCHANGED <<fs, globbed, dataset, ret>>

\* collate_fn(batch) on the fetched items
StepCollate(c) ==
  LET f == callers[c]
  IN  /\ f.pc = "fetch"
      /\ Len(f.batch) = Len(f.arg)
      /\ callers' = [callers EXCEPT ![c] =
           [pc |-> "done", op |-> f.op, arg |-> f.arg,
            out |-> collate_fn(dataset, f.batch)]]
      /\ UNCHANGED <<fs, globbed, dataset, ret>>

\* the caller takes the result; its frame is gone
Return(c) ==
  /\ callers[c].pc = "done"
  /\ callers' = [callers EXCEPT ![c] = IdleFrame]
  /\ UNCHANGED <<fs, globbed, dataset, ret>>

InitThreads ==
  /\ fs = MixedFS
  /\ globbed = <<>>
  /\ dataset = None
  /\ ret = [op |-> "none"]
  /\ callers = [c \in Callers |-> IdleFrame]

NextThreads ==
  \/ \E filenames \in Perms(glob(fs, "names")) : Construct("names", filenames)
  \/ \E c \in Callers :
       \/ \E call \in ThreadCalls : BeginCall(c, call)
       \/ StepEncode(c)
       \/ EndEncode(c)
       \/ StepDecode(c)
       \/ EndDecode(c)
       \/ StepFetch(c)
       \/ StepCollate(c)
       \/ Return(c)

SpecThreads == InitThreads /\ [][NextThreads]_vars

----------------------------------------------------------------------------
(* Vocabulary of the properties                                            *)

Constructed == dataset.class = "NameDataset"

\* the stored text of the item at position idx
TextOf(idx) == dataset.data[idx + 1][1]

\* the longest stored text among the items of a batch
BatchMaxLen(indices) ==
  CHOOSE m \in {Len(TextOf(indices[k])) : k \in DOMAIN indices} :
    \A k \in DOMAIN indices : Len(TextOf(indices[k])) <= m

\* position of a character in the alphabet, the sentinel position for a
\* character that is not in it
AlphabetIndex(c) ==
  IF \E i \in 1..Len(all_letters) : all_letters[i] = c
  THEN (CHOOSE i \in 1..Len(all_letters) : all_letters[i] = c) - 1
  ELSE 0

InAlphabet(c) == \E i \in 1..Len(all_letters) : all_letters[i] = c

OneHot(i) == [k \in 1..Len(all_letters) |-> IF k - 1 = i THEN 1 ELSE 0]

\* the letter vector number pos (from 0) of a tensor whose last axis is
\* the alphabet
LetterVector(t, pos) ==
  SubSeq(t.data, pos * Len(all_letters) + 1, (pos + 1) * Len(all_letters))

\* dataset.tensor_to_name(names[i][:n])
DecodeRowPrefix(names, i, n) ==
  IF names.shape = <<>> \/ i >= names.shape[1] THEN Raise("IndexError")
  ELSE LET row == TIndex(names, i)
       IN  IF row.shape = <<>> THEN Raise("IndexError")
           ELSE tensor_to_name(dataset, TSlice(row, n))

----------------------------------------------------------------------------
(* C1 -- collate_fn on B >= 1 items whose longest name has L >= 1          *)
(* characters returns names of shape (B, L, n_letters), also when B = 1    *)
(* and/or L = 1, and the prediction path                                   *)
(* name_to_tensor(name).squeeze().unsqueeze(0) yields (1, L, n_letters)    *)
(* also when L = 1.                                                        *)
C1_AxesPreserved ==
  /\ ret.op = "collate_fn" =>
       (BatchMaxLen(ret.indices) >= 1 =>
          ret.names.shape =
            <<Len(ret.indices), BatchMaxLen(ret.indices), Len(all_letters)>>)
  /\ ret.op = "predict" =>
       (Len(TextOf(ret.idx)) >= 1 =>
          ret.name_tensor.shape = <<1, Len(TextOf(ret.idx)), Len(all_letters)>>)

\* what the code does instead: squeeze() removes every axis of extent 1
C1_SqueezeDropsAxes ==
  ret.op = "collate_fn" =>
    ret.names.shape =
      SelectSeq(<<Len(ret.indices), BatchMaxLen(ret.indices), 1, Len(all_letters)>>,
                LAMBDA d : d # 1)

(* C2 -- batch round trip: for every item i of a batch built by            *)
(* collate_fn, decoding the first original_length_i positions of row i     *)
(* returns original_text_i exactly.                                        *)
C2_BatchRoundTrip ==
  ret.op = "collate_fn" =>
    \A k \in DOMAIN ret.indices :
      DecodeRowPrefix(ret.names, k - 1, Len(TextOf(ret.indices[k])))
        = Ok(TextOf(ret.indices[k]))

\* the example of the statement: texts Abl, Zz give padded length 3, the
\* sentinel in the third position of the second row, and Zz decoded back
C2_ExampleAblZz ==
  (/\ ret.op = "collate_fn"
   /\ Len(ret.indices) = 2
   /\ TextOf(ret.indices[1]) = Abl
   /\ TextOf(ret.indices[2]) = Zz) =>
     /\ ret.names.shape = <<2, 3, Len(all_letters)>>
     /\ argmax(ret.names).data[6] = 0
     /\ DecodeRowPrefix(ret.names, 1, 2) = Ok(Zz)

(* C3 -- in every batch returned by collate_fn all rows have the same      *)
(* length, the maximum original length among the items; the first          *)
(* original_length_i positions of row i are item i's encoding unchanged    *)
(* and every later position decodes to the sentinel index 0.               *)
C3_RightPadded ==
  ret.op = "collate_fn" =>
    LET B == Len(ret.indices)
        L == BatchMaxLen(ret.indices)
    IN  /\ ret.names.shape = <<B, L, Len(all_letters)>>
        /\ \A k \in 1..B : \A pos \in 0..(L - 1) :
             LET v == LetterVector(ret.names, (k - 1) * L + pos)
                 t == TextOf(ret.indices[k])
             IN  IF pos < Len(t)
                 THEN v = LetterVector(name_to_tensor(dataset, t), pos)
                 ELSE FirstMax(v) = 0

(* C4 -- constructing the loader with a path pattern that matches no       *)
(* files fails immediately with an IOError at load time.                   *)
C4_NoMatchRaisesIOError ==
  (ret.op = "NameDataset" /\ glob(fs, ret.path) = {}) => ret.exc = "IOError"

\* what the code does instead: an empty dataset, no error
C4_NoMatchGivesEmptyDataset ==
  (ret.op = "NameDataset" /\ glob(fs, ret.path) = {}) =>
    /\ ret.exc = "none"
    /\ dataset.data = <<>>
    /\ DOMAIN dataset.cat2idx = {}
    /\ DOMAIN dataset.idx2cat = {}

\* the lines of a file that are not empty after stripping
NonEmptyLines(content) ==
  SelectSeq(split(content, NL), LAMBDA line : strip(line) # <<>>)

RECURSIVE CountNonEmptyLines(_)
CountNonEmptyLines(filenames) ==
  IF filenames = <<>> THEN 0
  ELSE Len(NonEmptyLines(fs[Head(filenames)])) + CountNonEmptyLines(Tail(filenames))

(* C5 -- load_data stores exactly one item per non-empty line: no stored   *)
(* item has empty text, and a file with zero non-empty lines (a            *)
(* completely empty file too) contributes zero items.                      *)
C5_OneItemPerNonEmptyLine ==
  Constructed =>
    /\ \A k \in DOMAIN dataset.data : dataset.data[k][1] # <<>>
    /\ Len(dataset.data) = CountNonEmptyLines(globbed)

(* C6 -- after load_data cat2idx and idx2cat are inverses of each other:   *)
(* idx2cat[cat2idx[c]] = c for every registered category c and             *)
(* cat2idx[idx2cat[i]] = i for every assigned index i, also when two       *)
(* matched files have the same base name.                                  *)
C6_MappingsInverse ==
  Constructed =>
    /\ \A c \in DOMAIN dataset.cat2idx :
         /\ dataset.cat2idx[c] \in DOMAIN dataset.idx2cat
         /\ dataset.idx2cat[dataset.cat2idx[c]] = c
    /\ \A i \in DOMAIN dataset.idx2cat :
         /\ dataset.idx2cat[i] \in DOMAIN dataset.cat2idx
         /\ dataset.cat2idx[dataset.idx2cat[i]] = i

\* the category label of an enumerated file
CategoryOf(filename) == filename[2]

(* C7 -- load_data assigns category indices in enumeration order starting  *)
(* at 0: the k-th file glob yields (k = 0, 1, ...) gets index k,           *)
(* registered in both mappings when the file is processed; the files       *)
(* English.txt (Smith, Jones) then Italian.txt (Rossi) give                *)
(* cat2idx = {English: 0, Italian: 1} and 3 items.                         *)
C7_IndicesInEnumerationOrder ==
  Constructed =>
    /\ \A k \in 0..(Len(globbed) - 1) :
         LET loc == load_loop(globbed, fs, k + 1)
             c   == CategoryOf(globbed[k + 1])
         IN  /\ c \in DOMAIN loc.cat2idx /\ loc.cat2idx[c] = k
             /\ DOMAIN loc.idx2cat = 0..k /\ loc.idx2cat[k] = c
    /\ DOMAIN dataset.idx2cat = 0..(Len(globbed) - 1)
    /\ \A k \in 0..(Len(globbed) - 1) :
         /\ dataset.idx2cat[k] = CategoryOf(globbed[k + 1])
         /\ (\A j \in (k + 1)..(Len(globbed) - 1) :
               CategoryOf(globbed[j + 1]) # CategoryOf(globbed[k + 1]))
            => dataset.cat2idx[CategoryOf(globbed[k + 1])] = k
    /\ (/\ globbed = << <<"names", "English", ".txt">>, <<"names", "Italian", ".txt">> >>
        /\ fs[globbed[1]] = Smith \o <<NL>> \o Jones \o <<NL>>
        /\ fs[globbed[2]] = Rossi \o <<NL>>)
       => /\ dataset.cat2idx = ("English" :> 0) @@ ("Italian" :> 1)
          /\ len(dataset) = 3

C7_ScenarioLoaded ==
  /\ Constructed
  /\ ret.op = "len"
  /\ globbed = << <<"names", "English", ".txt">>, <<"names", "Italian", ".txt">> >>
  /\ fs[globbed[1]] = Smith \o <<NL>> \o Jones \o <<NL>>
  /\ fs[globbed[2]] = Rossi \o <<NL>>
  /\ dataset.cat2idx = ("English" :> 0) @@ ("Italian" :> 1)
  /\ ret.out = 3

(* C9 -- unknown-character fallback: encoding a character that is not in   *)
(* the alphabet (letter_to_tensor, name_to_tensor) raises no error and     *)
(* yields the sentinel index 0, and decoding that encoding                 *)
(* (tensor_to_name) returns the sentinel character all_letters[0].         *)
C9_UnknownCharFallback ==
  /\ (ret.op = "letter_to_tensor" /\ ~InAlphabet(ret.letter)) =>
       /\ ret.exc = "none"
       /\ ret.tensor.data = OneHot(0)
  /\ ret.op = "name_to_tensor" =>
       /\ ret.exc = "none"
       /\ \A li \in DOMAIN ret.name :
            ~InAlphabet(ret.name[li]) => LetterVector(ret.tensor, li - 1) = OneHot(0)
  /\ (ret.op = "tensor_to_name" /\ ret.src.op = "letter_to_tensor"
        /\ ~InAlphabet(ret.src.letter)) =>
       /\ ret.exc = "none"
       /\ ret.out = <<all_letters[1]>>
  /\ (ret.op = "tensor_to_name" /\ ret.src.op = "name_to_tensor") =>
       /\ ret.exc = "none"
       /\ Len(ret.out) = Len(ret.src.name)
       /\ \A li \in DOMAIN ret.src.name :
            ~InAlphabet(ret.src.name[li]) => ret.out[li] = all_letters[1]

C9_UnknownCharDecoded ==
  /\ ret.op = "tensor_to_name"
  /\ ret.src.op = "name_to_tensor"
  /\ ret.src.name = <<"U+00DF">>
  /\ ret.exc = "none"
  /\ ret.out = <<"-">>

(* C10 -- length preservation: for every string s (the empty string and    *)
(* strings with out-of-alphabet characters too) name_to_tensor(s) has      *)
(* exactly len(s) positions, one per character in the original order.      *)
C10_LengthPreserved ==
  ret.op = "name_to_tensor" =>
    /\ ret.tensor.shape = <<Len(ret.name), 1, Len(all_letters)>>
    /\ Len(ret.tensor.data) = Len(ret.name) * Len(all_letters)
    /\ \A li \in DOMAIN ret.name :
         LetterVector(ret.tensor, li - 1) = OneHot(AlphabetIndex(ret.name[li]))

C10_MixedNameEncoded ==
  /\ ret.op = "name_to_tensor"
  /\ ret.name = <<"A", "U+00DF">>
  /\ ret.tensor.shape[1] = 2
  /\ LetterVector(ret.tensor, 0) = OneHot(27)
  /\ LetterVector(ret.tensor, 1) = OneHot(0)

(* C11 -- alphabet coverage: for every character c of all_letters,         *)
(* encoding the one-character string c and decoding the result returns c;  *)
(* so decode(encode(t)) = t for every text t of alphabet characters only   *)
(* (e.g. Rossi).                                                           *)
C11_AlphabetRoundTrip ==
  /\ (ret.op = "tensor_to_name" /\ ret.src.op = "name_to_tensor"
        /\ \A li \in DOMAIN ret.src.name : InAlphabet(ret.src.name[li])) =>
       /\ ret.exc = "none"
       /\ ret.out = ret.src.name
  /\ (ret.op = "tensor_to_name" /\ ret.src.op = "letter_to_tensor"
        /\ InAlphabet(ret.src.letter)) =>
       /\ ret.exc = "none"
       /\ ret.out = <<ret.src.letter>>

C11_RossiRoundTrip ==
  /\ ret.op = "tensor_to_name"
  /\ ret.src.op = "name_to_tensor"
  /\ ret.src.name = Rossi
  /\ ret.out = Rossi

\* the index tensor_to_name reads at position pos of an encoding
IndexAt(t, pos) == FirstMax(LetterVector(t, pos))

(* C12 -- index 0 of the alphabet is reserved for the sentinel and is      *)
(* distinct from every real character: no character that can occur in a    *)
(* name encodes to index 0, so an index 0 in an encoded sequence always    *)
(* denotes an unknown character (or padding), never a character of the     *)
(* text that the alphabet admits.                                          *)
C12_SentinelIndexReserved ==
  /\ ret.op = "name_to_tensor" =>
       \A li \in DOMAIN ret.name :
         IndexAt(ret.tensor, li - 1) = 0 => ~InAlphabet(ret.name[li])
  /\ ret.op = "letter_to_tensor" =>
       (IndexAt(ret.tensor, 0) = 0 => ~InAlphabet(ret.letter))

\* what the code does: the sentinel position holds the hyphen, and the
\* hyphen of a text shares index 0 with every unknown character
C12_HyphenSharesSentinel ==
  ret.op = "name_to_tensor" =>
    \A li \in DOMAIN ret.name :
      IndexAt(ret.tensor, li - 1) = 0
        <=> (ret.name[li] = "-" \/ ~InAlphabet(ret.name[li]))

(* C13 -- per-line stripping: the stored text of every line is the         *)
(* normalization of the line with its trailing whitespace removed, so no   *)
(* stored item text ends in a whitespace character (lines in the middle    *)
(* of a file too).                                                         *)
C13_NoTrailingWhitespace ==
  Constructed =>
    \A k \in DOMAIN dataset.data :
      LET text == dataset.data[k][1]
      IN  text # <<>> => text[Len(text)] \notin Whitespace

\* the canonical decomposition of a text
Decomposed(s) == Concat([i \in DOMAIN s |-> NFD(s[i])])

NonspacingMarks == {"U+0301", "U+0303"}

CombiningMarks == NonspacingMarks \cup {"U+0BC6", "U+0BBE", "U+0BCA", "U+0903", "U+20DD"}

(* C14 (as stated) -- unicode_to_ascii returns the canonical decomposition *)
(* of its input with exactly the combining marks removed; every other      *)
(* character is kept, in its original order.                               *)
C14_CombiningMarksRemoved ==
  ret.op = "unicode_to_ascii" =>
    ret.out = SelectSeq(Decomposed(ret.s), LAMBDA c : c \notin CombiningMarks)

(* C14 (amended) -- unicode_to_ascii returns the canonical decomposition   *)
(* of its input with exactly the nonspacing marks (category Mn) removed;   *)
(* every other character, spacing and enclosing combining marks and        *)
(* characters outside the alphabet included, is kept in its original       *)
(* order; Jos + U+00E9 becomes Jose.                                       *)
C14_NonspacingMarksRemoved ==
  ret.op = "unicode_to_ascii" =>
    /\ ret.exc = "none"
    /\ ret.out = SelectSeq(Decomposed(ret.s), LAMBDA c : c \notin NonspacingMarks)
    /\ ret.s = JoseAccent => ret.out = Jose

C14_OutsideAlphabetKept ==
  /\ ret.op = "unicode_to_ascii"
  /\ ret.s = <<"1", "U+00E9", "U+00DF">>
  /\ ret.out = <<"1", "e", "U+00DF">>

\* the index of the maximum of each row of a two-axis tensor
RowIndices(t) ==
  [r \in 1..t.shape[1] |->
     FirstMax([j \in 1..t.shape[2] |-> t.data[(r - 1) * t.shape[2] + j]])]

(* C15 -- decoding a tensor one of whose per-position indices is not below *)
(* the alphabet size raises IndexError: nothing is returned, the index is  *)
(* neither clamped nor wrapped; with every index in range the characters   *)
(* at those indices are returned.                                          *)
C15_OutOfRangeIndexRaises ==
  (ret.op = "tensor_to_name" /\ ret.src.op = "scores") =>
    LET idx == RowIndices(ret.src.tensor)
    IN  IF \E r \in DOMAIN idx : idx[r] >= dataset.n_letters
        THEN ret.exc = "IndexError" /\ ret.out = <<>>
        ELSE /\ ret.exc = "none"
             /\ ret.out = [r \in DOMAIN idx |-> dataset.all_letters[idx[r] + 1]]

C15_IndexErrorRaised ==
  /\ ret.op = "tensor_to_name"
  /\ ret.src.op = "scores"
  /\ RowIndices(ret.src.tensor) = <<0, dataset.n_letters>>
  /\ ret.exc = "IndexError"

\* the category index of the item at position idx
CategoryIndexOf(idx) == dataset.cat2idx[dataset.data[idx + 1][2]]

(* C16 -- collate_fn returns the category indices as one flat sequence of  *)
(* length B in the order of the input items, aligned with the padded rows: *)
(* names has B rows, and for every i categories[i] is the category index   *)
(* of the item whose encoding row i of names starts with.                  *)
C16_CategoriesAlignedWithRows ==
  ret.op = "collate_fn" =>
    LET B == Len(ret.indices)
    IN  /\ ret.categories.shape = <<B>>
        /\ ret.names.shape # <<>>
        /\ ret.names.shape[1] = B
        /\ \A k \in 1..B :
             LET enc == name_to_tensor(dataset, TextOf(ret.indices[k])).data
             IN  /\ ret.categories.data[k] = CategoryIndexOf(ret.indices[k])
                 /\ SubSeq(TIndex(ret.names, k - 1).data, 1, Len(enc)) = enc

\* the categories alone: flat, of length B, in the order of the items
C16_CategoriesInOrder ==
  ret.op = "collate_fn" =>
    /\ ret.categories.shape = <<Len(ret.indices)>>
    /\ \A k \in DOMAIN ret.indices :
         ret.categories.data[k] = CategoryIndexOf(ret.indices[k])

(* C17 -- the loader is immutable after construction: every step that is  *)
(* not a construction (a call of __len__, __getitem__, letter_to_tensor,   *)
(* name_to_tensor, tensor_to_name, collate_fn or a cell built from them)   *)
(* leaves all_letters, n_letters, NULL_IDX, letter2idx, cat2idx, idx2cat   *)
(* and data as they were and stores nothing else in the loader.            *)
C17_LoaderImmutable ==
  [][(Constructed /\ ret'.op # "NameDataset") => dataset' = dataset]_vars

C17_IntactAfterBatch ==
  /\ ret.op = "show_row"
  /\ Len(ret.src.indices) = 2
  /\ dataset = NameDataset(globbed, fs)

\* what a finished call returns when it runs alone
ResultAlone(f) ==
  CASE f.op = "name_to_tensor" -> name_to_tensor(dataset, f.arg)
    [] f.op = "tensor_to_name" -> tensor_to_name(dataset, f.arg)
    [] f.op = "getitem"        -> getitem(dataset, f.arg)
    [] f.op = "collate_fn"     ->
         collate_fn(dataset, [k \in DOMAIN f.arg |-> getitem(dataset, f.arg[k])])

(* C18 -- thread safety without locking: under every interleaving of the   *)
(* steps of name_to_tensor, tensor_to_name, __getitem__ and collate_fn     *)
(* calls of several callers on one constructed dataset, every finished     *)
(* call returns what it returns when it runs alone, and no step of a call  *)
(* writes the dataset object.                                              *)
C18_SameResultAsAlone ==
  /\ \A c \in Callers :
       callers[c].pc = "done" => callers[c].out = ResultAlone(callers[c])
  /\ Constructed => dataset = NameDataset(globbed, fs)

C18_FinishedWhileOtherRuns ==
  /\ callers[1].pc = "done"
  /\ callers[1].op = "getitem"
  /\ callers[1].out = getitem(dataset, 0)
  /\ callers[2].pc = "encode"
  /\ callers[2].li = 1

(* C19 -- the category-index assignment depends on the enumeration order  *)
(* of the files: load_data takes them as glob yields them, so whenever the *)
(* enumerated files have pairwise different base names, every other order  *)
(* of the same files gives a different cat2idx; English.txt and Italian.txt *)
(* enumerated Italian first give Italian index 0, English first index 1.   *)
C19_OrderDecidesIndices ==
  (/\ Constructed
   /\ \A i, j \in DOMAIN globbed : i # j => CategoryOf(globbed[i]) # CategoryOf(globbed[j])) =>
     /\ dataset.cat2idx = load_data(globbed, fs).cat2idx
     /\ \A q \in Perms(Range(globbed)) :
          q # globbed => load_data(q, fs).cat2idx # dataset.cat2idx

C19_ItalianFirst ==
  /\ Constructed
  /\ globbed = << <<"names", "Italian", ".txt">>, <<"names", "English", ".txt">> >>
  /\ dataset.cat2idx["Italian"] = 0
  /\ load_data(<<globbed[2], globbed[1]>>, fs).cat2idx["Italian"] = 1

(* C20 -- every training item contributes to the loss: the index the loss  *)
(* ignores (ignore_index = 0) is never a category index assigned by        *)
(* load_data, and every target of a training step is counted.              *)
C20_NoCategoryIgnored ==
  /\ Constructed => \A c \in DOMAIN dataset.cat2idx : dataset.cat2idx[c] # ignore_index
  /\ (ret.op = "train_step" /\ ret.exc = "none") =>
       \A k \in DOMAIN ret.counted : ret.counted[k]

\* the items of the category numbered 0, and only they, are left out
C20_FirstCategoryMasked ==
  /\ (Constructed /\ globbed # <<>>) => 0 \in DOMAIN dataset.idx2cat
  /\ (ret.op = "train_step" /\ ret.exc = "none") =>
       \A k \in DOMAIN ret.counted :
         ret.counted[k] <=> CategoryIndexOf(ret.src.indices[k]) # 0

(* C21 -- for every position i in [0, len(dataset)) the category index    *)
(* returned by __getitem__(i) lies in [0, len(cat2idx)), the number of     *)
(* output classes of the classifier, also when matched files share a base  *)
(* name.                                                                   *)
C21_CategoryIndexInRange ==
  ret.op = "getitem" =>
    /\ ret.category.shape = <<1>>
    /\ ret.category.data[1] \in 0..(output_size(dataset) - 1)

\* with pairwise different base names among the enumerated files the index
\* is in range
C21_InRangeForDistinctNames ==
  (/\ ret.op = "getitem"
   /\ \A i, j \in DOMAIN globbed : i # j => CategoryOf(globbed[i]) # CategoryOf(globbed[j])) =>
     ret.category.data[1] \in 0..(output_size(dataset) - 1)

====
